---- MODULE Spec2Model ----
(***************************************************************************)
(* Model of the OmsFlowPriceUpdate component (src/omsFlowPriceUpdate.js):  *)
(* the cart item collection, the two debounced edit handlers with their    *)
(* timers, the batched save through updateRecord and the refresh through   *)
(* refreshApex.                                                            *)
(*                                                                         *)
(* Numbers.  A JavaScript value that the component computes with is a      *)
(* record [k, v]: k = "num" is a finite number whose value is v / Scale    *)
(* (prices and costs in hundredths, margins in hundredths of a percent),   *)
(* k = "NaN", "Infinity", "-Infinity" are the non-finite numbers and       *)
(* k = "undefined" is a value whose typeof is not 'number'.  Arithmetic    *)
(* on finite values is exact (rational), rounded where the code rounds.    *)
(*                                                                         *)
(* Timers.  setTimeout/clearTimeout are modelled by the set of armed       *)
(* timers; the 500 ms delay is abstracted: an armed timer may fire at any  *)
(* later step, and "before the quiet period elapses" means "while the      *)
(* timer is still armed".                                                  *)
(***************************************************************************)
EXTENDS Integers, Sequences, FiniteSets, TLC

\* ------------------------------------------------------------------ bounds
MaxEdits   == 2      \* edit events (updatePrice / updateMargin calls)
MaxSaveEdits == 1    \* edit events in behaviours that also save
MaxSaves   == 1      \* saveChanges calls
MaxFetches == 2      \* results the wire adapter provisions

\* two decimal places: roundNum(x, 2)
Scale == 100

\* ------------------------------------------------------------ JS numbers
Num(v)  == [k |-> "num", v |-> v]
NaN     == [k |-> "NaN", v |-> 0]
PosInf  == [k |-> "Infinity", v |-> 0]
NegInf  == [k |-> "-Infinity", v |-> 0]
Undef   == [k |-> "undefined", v |-> 0]

IsNum(x)    == x.k = "num"
IsFinite(x) == x.k = "num"

Abs(n) == IF n < 0 THEN -n ELSE n

\* round(n / d) to the nearest integer, halves towards +infinity (d # 0)
roundNum(n, d) ==
    LET nn == IF d < 0 THEN -n ELSE n
        dd == Abs(d)
    IN  (2 * nn + dd) \div (2 * dd)

\* ------------------------------------------------------------ parseFloat
Digits == {"0", "1", "2", "3", "4", "5", "6", "7", "8", "9"}

DigitVal(c) ==
    CASE c = "0" -> 0 [] c = "1" -> 1 [] c = "2" -> 2 [] c = "3" -> 3
      [] c = "4" -> 4 [] c = "5" -> 5 [] c = "6" -> 6 [] c = "7" -> 7
      [] c = "8" -> 8 [] c = "9" -> 9

RECURSIVE SkipWs(_, _)
SkipWs(s, i) == IF i <= Len(s) /\ s[i] = " " THEN SkipWs(s, i + 1) ELSE i

\* index one past the run of digits that starts at i
RECURSIVE DigitRun(_, _)
DigitRun(s, i) == IF i <= Len(s) /\ s[i] \in Digits THEN DigitRun(s, i + 1) ELSE i

\* decimal value of s[i .. j-1]
RECURSIVE DigitsValue(_, _, _)
DigitsValue(s, i, j) ==
    IF i >= j THEN 0 ELSE DigitsValue(s, i, j - 1) * 10 + DigitVal(s[j - 1])

\* parseFloat of a string given as its sequence of characters: leading
\* blanks, an optional sign, digits, an optional fraction; stops at the
\* first other character; NaN when no digit was read.  Inputs carry at
\* most two fraction digits (further ones are dropped).
parseFloat(s) ==
    LET i0     == SkipWs(s, 1)
        neg    == i0 <= Len(s) /\ s[i0] = "-"
        i1     == IF i0 <= Len(s) /\ s[i0] \in {"-", "+"} THEN i0 + 1 ELSE i0
        i2     == DigitRun(s, i1)
        hasDot == i2 <= Len(s) /\ s[i2] = "."
        i3     == IF hasDot THEN DigitRun(s, i2 + 1) ELSE i2
        nInt   == i2 - i1
        nFrac  == IF hasDot THEN i3 - (i2 + 1) ELSE 0
        frac   == IF nFrac = 0 THEN 0
                  ELSE IF nFrac = 1 THEN DigitVal(s[i2 + 1]) * 10
                  ELSE DigitsValue(s, i2 + 1, i2 + 3)
        mag    == DigitsValue(s, i1, i2) * Scale + frac
    IN  IF nInt + nFrac = 0 THEN NaN ELSE Num(IF neg THEN -mag ELSE mag)

\* --------------------------------------------------------- calculateMargin
\* margin in hundredths of a percent
calculateMargin(revenue, cost) ==
    IF revenue.k = "undefined" \/ cost.k = "undefined" \/ revenue = Num(0)
    THEN Num(0)
    ELSE IF revenue.k = "NaN" \/ cost.k = "NaN" THEN NaN
    ELSE IF ~IsNum(revenue)
         THEN \* (+-Inf - c) / +-Inf is NaN
              NaN
    ELSE IF ~IsNum(cost)
         THEN \* (r - +-Inf) / r * 100
              IF (cost = PosInf) = (revenue.v > 0) THEN NegInf ELSE PosInf
    ELSE Num(roundNum((revenue.v - cost.v) * 100 * Scale, revenue.v))

\* a conversion that takes the percentage as a markup on cost
priceFromMargin_Markup(marginPercent, cost) ==
    IF ~IsNum(marginPercent) \/ ~IsNum(cost) THEN NaN
    ELSE Num(roundNum(cost.v * (100 * Scale + marginPercent.v), 100 * Scale))

\* price for a margin entered as a percentage: lines 102-104,
\* roundNum(cost / (1 - parseFloat(value) / 100), 2)
priceFromMargin(marginPercent, cost) ==
    IF marginPercent.k = "NaN" \/ cost.k \in {"NaN", "undefined"} THEN NaN
    ELSE IF ~IsNum(marginPercent)
         THEN \* 1 - (+-Inf) is -+Inf; finite / Inf is 0, Inf / Inf is NaN
              IF IsNum(cost) THEN Num(0) ELSE NaN
    ELSE IF ~IsNum(cost)
         THEN IF marginPercent.v = 100 * Scale THEN cost
              ELSE IF (cost = PosInf) = (marginPercent.v < 100 * Scale)
                   THEN PosInf ELSE NegInf
    ELSE IF marginPercent.v = 100 * Scale
         THEN \* division by zero
              IF cost.v > 0 THEN PosInf
              ELSE IF cost.v < 0 THEN NegInf ELSE NaN
    ELSE Num(roundNum(cost.v * 100 * Scale, 100 * Scale - marginPercent.v))


\* ----------------------------------------------------------------- inputs
\* record ids the fetch collaborator knows
Ids == {"A", "B"}

FieldNames == {"price", "margin"}

\* what the user types into an input (event.target.value), character by
\* character: "12.5", "100", "abc"
RawValues == { <<"1", "2", ".", "5">>, <<"1", "0", "0">>, <<"a", "b", "c">> }

RawItem(id, price, cost, agency) ==
    [Id |-> id, SalesPrice |-> Num(price),
     Product2 |-> [Product_Cost__c |-> Num(cost), Agency_Pricing__c |-> agency]]

\* payloads getCartItems can deliver: both items (B is agency priced), and,
\* later, a cart from which B is gone and A is repriced
Payloads ==
    { << RawItem("A", 1000, 500, FALSE), RawItem("B", 2000, 800, TRUE) >>,
      << RawItem("A", 800, 500, FALSE) >> }

\* results of the wire adapter: {data, error}
WireResults ==
    { [data |-> <<d>>, error |-> FALSE] : d \in Payloads }
      \cup { [data |-> <<>>, error |-> TRUE] }

\* errors updateRecord rejects with: with and without a body
WriteErrors ==
    { [hasBody |-> TRUE,  bodyMessage |-> "bodyMsg", message |-> "msg"],
      [hasBody |-> FALSE, bodyMessage |-> "",        message |-> "msg"] }

NoError == [hasBody |-> FALSE, bodyMessage |-> "", message |-> ""]

\* ------------------------------------------------------------------ state
VARIABLES
    cartId,              \* this.cartId ("undefined" until set)
    cartItems,           \* this.cartItems
    errorMsg,            \* this.errorMsg
    wiredCartResult,     \* this.wiredCartResult: <<>> or <<result>>
    updatePriceTimeout,  \* this.updatePriceTimeout: timer handle, 0 = unset
    updateMarginTimeout, \* this.updateMarginTimeout
    timers,              \* armed timers (handles) in the browser's timer queue
    log,                 \* history: one record per edit event; handle = index
                         \*   status: pending, cleared, committed, notfound
                         \*   prev / other: the armed timer of the same / the
                         \*     other field when the edit was scheduled (0: none)
                         \*   locked: the item's readonly flag at the edit
                         \*   refresh: none, requested (refresh called while
                         \*     pending), reseeded (refetched data delivered)
                         \*   applied: the item's price and margin after commit
    fetchPending,        \* the wire adapter owes a result
    refreshPending,      \* the refreshApex promise is unsettled
    fetches,             \* results provisioned so far
    saves,               \* one record per saveChanges call
    storage,             \* external records: id -> last price written
    toasts,              \* ShowToastEvents dispatched: [op, variant]
    cartItemsRef,        \* identity of the array this.cartItems refers to:
                         \*   the number of arrays assigned to it so far
    calc                 \* one evaluation of the two conversion functions:
                         \*   calculateMargin(revenue, cost), then the price
                         \*   the margin callback derives from that margin

vars == << cartId, cartItems, errorMsg, wiredCartResult, updatePriceTimeout,
           updateMarginTimeout, timers, log, fetchPending, refreshPending,
           fetches, saves, storage, toasts, cartItemsRef, calc >>

editVars  == << updatePriceTimeout, updateMarginTimeout, timers, log >>
fetchVars == << cartId, wiredCartResult, fetchPending, refreshPending, fetches >>
saveVars  == << saves, storage, toasts >>

\* no evaluation of the conversion functions under way
CalcIdle ==
    [pc |-> "idle", revenue |-> Undef, cost |-> Undef, margin |-> Undef, price |-> Undef]

\* the component after construction
InitComponent ==
    /\ cartId = "undefined"
    /\ cartItems = <<>>
    /\ errorMsg = "undefined"
    /\ wiredCartResult = <<>>
    /\ updatePriceTimeout = 0
    /\ updateMarginTimeout = 0
    /\ timers = {}
    /\ log = <<>>
    /\ fetchPending = FALSE
    /\ refreshPending = FALSE
    /\ fetches = 0
    /\ saves = <<>>
    /\ storage = [i \in Ids |-> Undef]
    /\ toasts = {}
    /\ cartItemsRef = 0

Init ==
    /\ InitComponent
    /\ calc = CalcIdle

\* ---------------------------------------------------------------- helpers
ItemIds(items) == { items[i].Id : i \in 1..Len(items) }

\* a find that falls back to the first item when nothing matches
FindIndex_OrFirst(items, id) ==
    IF \E i \in 1..Len(items) : items[i].Id = id
    THEN CHOOSE i \in 1..Len(items) :
            items[i].Id = id /\ \A j \in 1..(i - 1) : items[j].Id # id
    ELSE IF Len(items) > 0 THEN 1 ELSE 0

\* Array.prototype.find(item => item.Id === id): index of the first match, 0
FindIndex(items, id) ==
    IF \E i \in 1..Len(items) : items[i].Id = id
    THEN CHOOSE i \in 1..Len(items) :
            items[i].Id = id /\ \A j \in 1..(i - 1) : items[j].Id # id
    ELSE 0

showSuccessToast(op) == toasts \cup { [op |-> op, variant |-> "success"] }
showErrorToast(op)   == toasts \cup { [op |-> op, variant |-> "error"] }

\* a clearTimeout that cancels nothing
clearTimeout_Noop(handle) == timers

\* clearTimeout(handle): the timer, if still armed, never fires
clearTimeout(handle) == timers \ {handle}

\* ------------------------------------------------------------------ fetch
\* set shopCartId(data): the wire adapter re-provisions for the new cartId
SetShopCartId ==
    /\ cartId = "undefined"
    /\ cartId' = "cart1"
    /\ fetchPending' = TRUE
    /\ UNCHANGED << cartItems, cartItemsRef, calc, errorMsg, wiredCartResult,
                    refreshPending, fetches >>
    /\ UNCHANGED editVars
    /\ UNCHANGED saveVars

\* a mapping that forgets the pricing restriction
MapItem_NoLock(item) ==
    [Id |-> item.Id, SalesPrice |-> item.SalesPrice, Product2 |-> item.Product2,
     margin |-> calculateMargin(item.SalesPrice, item.Product2.Product_Cost__c),
     readonly |-> FALSE]

\* data.map(item => ({...item, margin, readonly}))
MapItem(item) ==
    [Id |-> item.Id, SalesPrice |-> item.SalesPrice, Product2 |-> item.Product2,
     margin |-> calculateMargin(item.SalesPrice, item.Product2.Product_Cost__c),
     readonly |-> item.Product2.Agency_Pricing__c]

MapItems(data) == [i \in 1..Len(data) |-> MapItem(data[i])]

\* history only: edits still pending when a refresh re-seeds the collection
MarkReseeded(l) ==
    [e \in 1..Len(l) |->
        IF l[e].status = "pending" /\ l[e].refresh = "requested"
        THEN [l[e] EXCEPT !.refresh = "reseeded"] ELSE l[e]]

\* (a refetch through refreshApex provisions only a result that changed)
wiredCart(result) ==
    /\ fetchPending
    /\ refreshPending => <<result>> # wiredCartResult
    /\ fetches < MaxFetches
    /\ fetches' = fetches + 1
    /\ fetchPending' = FALSE
    /\ wiredCartResult' = <<result>>
    /\ IF Len(result.data) > 0
       THEN /\ cartItems' = MapItems(result.data[1])
            /\ cartItemsRef' = cartItemsRef + 1
            /\ UNCHANGED calc
            /\ errorMsg' = "undefined"
            /\ log' = MarkReseeded(log)
       ELSE IF result.error
            THEN /\ errorMsg' = "fetchError"
                 /\ UNCHANGED << cartItems, cartItemsRef, calc, log >>
            ELSE UNCHANGED << cartItems, cartItemsRef, calc, errorMsg, log >>
    /\ UNCHANGED << cartId, refreshPending, updatePriceTimeout, updateMarginTimeout, timers >>
    /\ UNCHANGED saveVars

\* history only: edits pending when refresh is called
MarkRequested(l) ==
    [e \in 1..Len(l) |->
        IF l[e].status = "pending"
        THEN [l[e] EXCEPT !.refresh = "requested"] ELSE l[e]]

\* refreshCartItems(): refreshApex(this.wiredCartResult)
refreshCartItems ==
    /\ Len(wiredCartResult) > 0
    /\ ~refreshPending
    /\ ~fetchPending
    /\ fetches < MaxFetches
    /\ refreshPending' = TRUE
    /\ fetchPending' = TRUE
    /\ log' = MarkRequested(log)
    /\ UNCHANGED << cartId, cartItems, cartItemsRef, calc, errorMsg, wiredCartResult, fetches,
                    updatePriceTimeout, updateMarginTimeout, timers >>
    /\ UNCHANGED saveVars

\* the refreshApex promise resolves: .then logs; when the refetched data is
\* unchanged the wire adapter provisions nothing
RefreshResolved ==
    /\ refreshPending
    /\ refreshPending' = FALSE
    /\ fetchPending' = FALSE
    /\ UNCHANGED << cartId, cartItems, cartItemsRef, calc, errorMsg, wiredCartResult, fetches >>
    /\ UNCHANGED editVars
    /\ UNCHANGED saveVars

\* the refreshApex promise rejects: .catch shows the error toast
RefreshRejected ==
    /\ refreshPending
    /\ fetchPending
    /\ refreshPending' = FALSE
    /\ fetchPending' = FALSE
    /\ toasts' = showErrorToast(0)
    /\ UNCHANGED << cartId, cartItems, cartItemsRef, calc, errorMsg, wiredCartResult, fetches >>
    /\ UNCHANGED editVars
    /\ UNCHANGED << saves, storage >>


\* ------------------------------------------------------------------ edits
\* history only: a pending edit whose timer is no longer armed was cleared
MarkCleared(l, armed) ==
    [e \in 1..Len(l) |->
        IF l[e].status = "pending" /\ e \notin armed
        THEN [l[e] EXCEPT !.status = "cleared"] ELSE l[e]]

Armed(handle) == IF handle \in timers THEN handle ELSE 0

LogEntry(field, id, value, prev, other) ==
    [field |-> field, id |-> id, value |-> value, status |-> "pending",
     prev |-> prev, other |-> other,
     locked |-> cartItems[FindIndex(cartItems, id)].readonly,
     refresh |-> "none",
     applied |-> [SalesPrice |-> Undef, margin |-> Undef]]

\* updatePrice(event): id and value come from the input of a rendered row
updatePrice(id, value) ==
    LET handle == Len(log) + 1
        kept   == IF updatePriceTimeout # 0
                  THEN clearTimeout(updatePriceTimeout) ELSE timers
    IN  /\ Len(log) < MaxEdits
        /\ id \in ItemIds(cartItems)
        /\ timers' = kept \cup {handle}
        /\ updatePriceTimeout' = handle
        /\ log' = Append(MarkCleared(log, kept),
                         LogEntry("price", id, value, Armed(updatePriceTimeout),
                                  Armed(updateMarginTimeout)))
        /\ UNCHANGED << cartItems, cartItemsRef, calc, errorMsg, updateMarginTimeout >>
        /\ UNCHANGED fetchVars
        /\ UNCHANGED saveVars

\* an updateMargin that clears the price timer as well as its own
updateMargin_ClearsBoth(id, value) ==
    LET handle == Len(log) + 1
        kept   == timers \ {updateMarginTimeout, updatePriceTimeout}
    IN  /\ Len(log) < MaxEdits
        /\ id \in ItemIds(cartItems)
        /\ timers' = kept \cup {handle}
        /\ updateMarginTimeout' = handle
        /\ log' = Append(MarkCleared(log, kept),
                         LogEntry("margin", id, value, Armed(updateMarginTimeout),
                                  Armed(updatePriceTimeout)))
        /\ UNCHANGED << cartItems, cartItemsRef, calc, errorMsg, updatePriceTimeout >>
        /\ UNCHANGED fetchVars
        /\ UNCHANGED saveVars

\* updateMargin(event)
updateMargin(id, value) ==
    LET handle == Len(log) + 1
        kept   == IF updateMarginTimeout # 0
                  THEN clearTimeout(updateMarginTimeout) ELSE timers
    IN  /\ Len(log) < MaxEdits
        /\ id \in ItemIds(cartItems)
        /\ timers' = kept \cup {handle}
        /\ updateMarginTimeout' = handle
        /\ log' = Append(MarkCleared(log, kept),
                         LogEntry("margin", id, value, Armed(updateMarginTimeout),
                                  Armed(updatePriceTimeout)))
        /\ UNCHANGED << cartItems, cartItemsRef, calc, errorMsg, updatePriceTimeout >>
        /\ UNCHANGED fetchVars
        /\ UNCHANGED saveVars

\* a price commit that leaves the margin as it was
PriceCommit_StaleMargin(item, value) ==
    [item EXCEPT !.SalesPrice = parseFloat(value)]

\* the item after the price callback's two assignments (lines 76-77)
PriceCommit(item, value) ==
    [item EXCEPT
        !.SalesPrice = parseFloat(value),
        !.margin = calculateMargin(parseFloat(value), item.Product2.Product_Cost__c)]

\* a margin commit that re-derives the margin from the new price
MarginCommit_Rederived(item, value) ==
    LET price == priceFromMargin(parseFloat(value), item.Product2.Product_Cost__c)
    IN  [item EXCEPT
            !.SalesPrice = price,
            !.margin = calculateMargin(price, item.Product2.Product_Cost__c)]

\* a margin commit that also overwrites the cost
MarginCommit_WritesCost(item, value) ==
    [item EXCEPT
        !.SalesPrice = priceFromMargin(parseFloat(value), item.Product2.Product_Cost__c),
        !.margin = parseFloat(value),
        !.Product2.Product_Cost__c = Num(0)]

\* the item after the margin callback's assignments (lines 102-105)
MarginCommit(item, value) ==
    [item EXCEPT
        !.SalesPrice = priceFromMargin(parseFloat(value), item.Product2.Product_Cost__c),
        !.margin = parseFloat(value)]

\* the callback of updatePrice's setTimeout fires
updatePriceTimer(handle) ==
    LET id    == log[handle].id
        value == log[handle].value
        idx   == FindIndex(cartItems, id)
    IN  /\ handle \in timers
        /\ log[handle].field = "price"
        /\ timers' = timers \ {handle}
        /\ IF idx # 0
           THEN /\ cartItems' = [cartItems EXCEPT ![idx] = PriceCommit(cartItems[idx], value)]
                /\ cartItemsRef' = cartItemsRef + 1
                /\ UNCHANGED calc
                /\ log' = [log EXCEPT ![handle].status = "committed",
                                      ![handle].applied =
                                          [SalesPrice |-> cartItems'[idx].SalesPrice,
                                           margin |-> cartItems'[idx].margin]]
           ELSE /\ log' = [log EXCEPT ![handle].status = "notfound"]
                /\ UNCHANGED << cartItems, cartItemsRef, calc >>
        /\ UNCHANGED << errorMsg, updatePriceTimeout, updateMarginTimeout >>
        /\ UNCHANGED fetchVars
        /\ UNCHANGED saveVars

\* the callback of updateMargin's setTimeout fires
updateMarginTimer(handle) ==
    LET id    == log[handle].id
        value == log[handle].value
        idx   == FindIndex(cartItems, id)
    IN  /\ handle \in timers
        /\ log[handle].field = "margin"
        /\ timers' = timers \ {handle}
        /\ IF idx # 0
           THEN /\ cartItems' = [cartItems EXCEPT ![idx] = MarginCommit(cartItems[idx], value)]
                /\ cartItemsRef' = cartItemsRef + 1
                /\ UNCHANGED calc
                /\ log' = [log EXCEPT ![handle].status = "committed",
                                      ![handle].applied =
                                          [SalesPrice |-> cartItems'[idx].SalesPrice,
                                           margin |-> cartItems'[idx].margin]]
           ELSE /\ log' = [log EXCEPT ![handle].status = "notfound"]
                /\ UNCHANGED << cartItems, cartItemsRef, calc >>
        /\ UNCHANGED << errorMsg, updatePriceTimeout, updateMarginTimeout >>
        /\ UNCHANGED fetchVars
        /\ UNCHANGED saveVars

\* ------------------------------------------------------------------- save
\* updates that carry the whole item
Updates_WholeItem(items) ==
    [i \in 1..Len(items) |->
        [fields |-> [Id |-> items[i].Id, SalesPrice |-> items[i].SalesPrice,
                     margin |-> items[i].margin]]]

\* updates that take the value of a pending price edit instead of the
\* item's price
Updates_Flushed(items) ==
    [i \in 1..Len(items) |->
        [fields |->
            [Id |-> items[i].Id,
             SalesPrice |->
                IF updatePriceTimeout \in timers
                      /\ log[updatePriceTimeout].id = items[i].Id
                THEN parseFloat(log[updatePriceTimeout].value)
                ELSE items[i].SalesPrice]]]

\* const updates = this.cartItems.map(item => ({fields: {Id, SalesPrice}}))
Updates(items) ==
    [i \in 1..Len(items) |->
        [fields |-> [Id |-> items[i].Id, SalesPrice |-> items[i].SalesPrice]]]

\* saveChanges(): one updateRecord call per update, Promise.all over them.
\* "at" and "pending" are history: the collection and the armed timers
\* when save was invoked.
saveChanges ==
    /\ Len(saves) < MaxSaves
    /\ saves' = Append(saves,
                  [at |-> cartItems,
                   pending |-> timers,
                   updates |-> Updates(cartItems),
                   status |-> [i \in 1..Len(cartItems) |-> "inflight"],
                   rejected |-> FALSE,
                   reason |-> NoError,
                   outcome |-> "pending"])
    /\ UNCHANGED << cartItems, cartItemsRef, calc, errorMsg, storage, toasts >>
    /\ UNCHANGED editVars
    /\ UNCHANGED fetchVars

\* updateRecord(update) resolves: the record is written
updateRecordResolved(s, i) ==
    /\ s \in 1..Len(saves)
    /\ i \in 1..Len(saves[s].updates)
    /\ saves[s].status[i] = "inflight"
    /\ saves' = [saves EXCEPT ![s].status[i] = "resolved"]
    /\ storage' = [storage EXCEPT ![saves[s].updates[i].fields.Id] =
                                     saves[s].updates[i].fields.SalesPrice]
    /\ UNCHANGED << cartItems, cartItemsRef, calc, errorMsg, toasts >>
    /\ UNCHANGED editVars
    /\ UNCHANGED fetchVars

\* updateRecord(update) rejects; Promise.all rejects with the first rejection
updateRecordRejected(s, i, error) ==
    /\ s \in 1..Len(saves)
    /\ i \in 1..Len(saves[s].updates)
    /\ saves[s].status[i] = "inflight"
    /\ saves' = [saves EXCEPT
                    ![s].status[i] = "rejected",
                    ![s].rejected = TRUE,
                    ![s].reason = IF saves[s].rejected THEN @ ELSE error]
    /\ UNCHANGED << cartItems, cartItemsRef, calc, errorMsg, storage, toasts >>
    /\ UNCHANGED editVars
    /\ UNCHANGED fetchVars

\* fulfilled as soon as one promise resolved
AllFulfilled_Any(save) == \E i \in 1..Len(save.updates) : save.status[i] = "resolved"

\* Promise.all(updatePromises) is fulfilled: every promise resolved
AllFulfilled(save) == \A i \in 1..Len(save.updates) : save.status[i] = "resolved"

\* .then(() => {...}): success toast, cartItems re-mapped to copies
saveThen(s) ==
    /\ s \in 1..Len(saves)
    /\ saves[s].outcome = "pending"
    /\ AllFulfilled(saves[s])
    /\ toasts' = showSuccessToast(s)
    /\ cartItems' = [i \in 1..Len(cartItems) |-> cartItems[i]]
    /\ cartItemsRef' = cartItemsRef + 1
    /\ UNCHANGED calc
    /\ saves' = [saves EXCEPT ![s].outcome = "Success"]
    /\ UNCHANGED << errorMsg, storage >>
    /\ UNCHANGED editVars
    /\ UNCHANGED fetchVars

\* error.body ? error.body.message : error.message
ErrorMessage(error) == IF error.hasBody THEN error.bodyMessage ELSE error.message

\* a catch handler that rolls the collection back to the saved snapshot
saveCatch_Rollback(s) ==
    /\ s \in 1..Len(saves)
    /\ saves[s].outcome = "pending"
    /\ saves[s].rejected
    /\ errorMsg' = ErrorMessage(saves[s].reason)
    /\ toasts' = showErrorToast(s)
    /\ saves' = [saves EXCEPT ![s].outcome = "Failure"]
    /\ cartItems' = saves[s].at
    /\ cartItemsRef' = cartItemsRef + 1
    /\ UNCHANGED calc
    /\ UNCHANGED storage
    /\ UNCHANGED editVars
    /\ UNCHANGED fetchVars

\* .catch(error => {...}): errorMsg, error toast
saveCatch(s) ==
    /\ s \in 1..Len(saves)
    /\ saves[s].outcome = "pending"
    /\ saves[s].rejected
    /\ errorMsg' = ErrorMessage(saves[s].reason)
    /\ toasts' = showErrorToast(s)
    /\ saves' = [saves EXCEPT ![s].outcome = "Failure"]
    /\ UNCHANGED << cartItems, cartItemsRef, calc, storage >>
    /\ UNCHANGED editVars
    /\ UNCHANGED fetchVars

\* ---------------------------------------------------------- specification
FetchNext ==
    \/ SetShopCartId
    \/ \E result \in WireResults : wiredCart(result)
    \/ refreshCartItems
    \/ RefreshResolved
    \/ RefreshRejected

EditEvent ==
    \/ \E id \in Ids, value \in RawValues : updatePrice(id, value)
    \/ \E id \in Ids, value \in RawValues : updateMargin(id, value)

TimerNext ==
    \/ \E handle \in timers : updatePriceTimer(handle)
    \/ \E handle \in timers : updateMarginTimer(handle)

SaveNext ==
    \/ saveChanges
    \/ \E s \in 1..Len(saves) : \E i \in 1..Len(saves[s].updates) :
          updateRecordResolved(s, i)
    \/ \E s \in 1..Len(saves) : \E i \in 1..Len(saves[s].updates), error \in WriteErrors :
          updateRecordRejected(s, i, error)
    \/ \E s \in 1..Len(saves) : saveThen(s)
    \/ \E s \in 1..Len(saves) : saveCatch(s)

\* the whole component; the edit events are capped at MaxSaveEdits here
Next ==
    \/ FetchNext
    \/ Len(log) < MaxSaveEdits /\ EditEvent
    \/ TimerNext
    \/ SaveNext

Spec == Init /\ [][Next]_vars

\* fetch, refresh and the debounced edits (saveChanges and its promise
\* callbacks leave the timers and the edit history unchanged)
NextEdit ==
    \/ FetchNext
    \/ EditEvent
    \/ TimerNext

SpecEdit == Init /\ [][NextEdit]_vars


\* ================================================================= claims

\* the edits of the burst that ends with edit e: e and, as long as the edit
\* replaced a pending edit to the same id and field, the edits before it
RECURSIVE Burst(_)
Burst(e) ==
    LET p == log[e].prev
    IN  IF p # 0 /\ log[p].id = log[e].id /\ log[p].field = log[e].field
        THEN {e} \cup Burst(p) ELSE {e}

Fired(e) == log[e].status \in {"committed", "notfound"}

\* the value an edit's commit writes to the field that was edited
Entered(e) ==
    IF log[e].field = "price" THEN log[e].applied.SalesPrice ELSE log[e].applied.margin

\* C1: in a burst of edits to the same (id, field), each scheduled while the
\* timer of the previous one is still armed, no edit but the last ever fires:
\* once the last has committed it is the only commit of the burst, and the
\* field holds the parsed value of the last edit.
C1_DebounceCoalescing ==
    \A e \in 1..Len(log) :
        /\ \A p \in Burst(e) \ {e} : ~Fired(p) /\ log[p].status = "cleared"
        /\ log[e].status = "committed" =>
              /\ { x \in Burst(e) : log[x].status = "committed" } = {e}
              /\ Entered(e) = parseFloat(log[e].value)

\* C1 witness: a burst of at least two edits whose last edit has committed
C1_Witness ==
    \E e \in 1..Len(log) :
        /\ Cardinality(Burst(e)) >= 2
        /\ log[e].status = "committed"

\* C2: an edit to a field of one item is never cancelled by an edit to the
\* same field of a different item.
C2_DifferentIdsIndependent ==
    \A e \in 1..Len(log) : \A p \in 1..Len(log) :
        (log[e].prev = p /\ log[e].id # log[p].id) => log[p].status # "cleared"

\* C3: a pending edit is cancelled only by a later edit to the same field: a
\* price edit and a margin edit that are pending together never cancel each
\* other.
C3_FieldsIndependent ==
    \A p \in 1..Len(log) :
        log[p].status = "cleared" =>
            \E e \in 1..Len(log) : log[e].prev = p /\ log[e].field = log[p].field

\* C3 witness: a price edit and a margin edit were pending together and both
\* have committed
C3_Witness ==
    \E e \in 1..Len(log) :
        /\ log[e].other # 0
        /\ log[e].status = "committed"
        /\ log[log[e].other].status = "committed"
        /\ log[log[e].other].field # log[e].field

\* C4: an edit on an item whose readonly flag is true is never committed.
C4_LockedRejected ==
    \A e \in 1..Len(log) : log[e].locked => log[e].status # "committed"

\* C5: an edit that was pending when refresh was called and still pending
\* when the refetched data re-seeded the collection is never committed.
C5_RefreshCancelsPending ==
    \A e \in 1..Len(log) :
        log[e].refresh = "reseeded" => log[e].status # "committed"


\* the notifications dispatched for save number s
SaveToasts(s) == { t.variant : t \in { x \in toasts : x.op = s } }

\* C6: a save of N items issues exactly N write requests, the i-th for the
\* i-th item, each carrying only that item's Id and its price at the save.
C6_SavePayload ==
    \A s \in 1..Len(saves) :
        /\ Len(saves[s].updates) = Len(saves[s].at)
        /\ DOMAIN saves[s].status = 1..Len(saves[s].at)
        /\ \A i \in 1..Len(saves[s].at) :
              /\ DOMAIN saves[s].updates[i] = {"fields"}
              /\ DOMAIN saves[s].updates[i].fields = {"Id", "SalesPrice"}
              /\ saves[s].updates[i].fields.Id = saves[s].at[i].Id
              /\ saves[s].updates[i].fields.SalesPrice = saves[s].at[i].SalesPrice

\* C6 witness: a save of a collection of two items
C6_Witness == \E s \in 1..Len(saves) : Len(saves[s].updates) = 2

\* C7 (state part): a save has at most one notification; a success
\* notification only when every write resolved, an error notification only
\* when some write rejected; the notification is the reported outcome.
C7_OutcomeInv ==
    \A s \in 1..Len(saves) :
        LET T        == SaveToasts(s)
            resolved == \A i \in 1..Len(saves[s].updates) : saves[s].status[i] = "resolved"
            rejected == \E i \in 1..Len(saves[s].updates) : saves[s].status[i] = "rejected"
        IN  /\ Cardinality(T) <= 1
            /\ "success" \in T => resolved
            /\ "error" \in T => rejected
            /\ ("success" \in T) <=> (saves[s].outcome = "Success")
            /\ ("error" \in T) <=> (saves[s].outcome = "Failure")

\* C7 (step part): the step that reports Failure stores the message of the
\* rejection in errorMsg.
C7_FailureStep ==
    \A s \in 1..Len(saves) :
        (s \in 1..Len(saves') /\ saves[s].outcome = "pending"
            /\ saves'[s].outcome = "Failure")
        => /\ errorMsg' = ErrorMessage(saves[s].reason)
           /\ saves[s].reason \in WriteErrors

\* C7: each save reports at most one aggregate outcome, Success only if
\* every write request resolved and Failure only if one rejected, never
\* both; a Failure leaves the rejection's message in errorMsg.
C7_BatchSaveOutcome == []C7_OutcomeInv /\ [][C7_FailureStep]_vars

\* C7 witness: a save of two items reported Failure although one of its
\* writes resolved
C7_Witness ==
    \E s \in 1..Len(saves) :
        /\ saves[s].outcome = "Failure"
        /\ \E i \in 1..Len(saves[s].updates) : saves[s].status[i] = "resolved"
        /\ errorMsg = "bodyMsg"

\* the step in which save number s reports Failure
ReportsFailure(s) ==
    /\ s \in 1..Len(saves')
    /\ saves[s].outcome = "pending"
    /\ saves'[s].outcome = "Failure"

\* C8 as stated: when a save reports Failure the collection is what it was
\* when save was invoked.
C8_CollectionAsAtInvocation ==
    [][\A s \in 1..Len(saves) : ReportsFailure(s) => cartItems' = saves[s].at]_vars

\* C8 amended: reporting Failure changes nothing in the collection, issues
\* no write and leaves external storage, with every write that succeeded,
\* as it is.
C8_NoRollback ==
    [][\A s \in 1..Len(saves) :
          ReportsFailure(s) =>
              /\ cartItems' = cartItems
              /\ storage' = storage
              /\ Len(saves') = Len(saves)
              /\ \A r \in 1..Len(saves) :
                    /\ saves'[r].updates = saves[r].updates
                    /\ saves'[r].status = saves[r].status
              /\ \A i \in 1..Len(saves[s].updates) :
                    saves[s].status[i] = "resolved" =>
                        \E r \in 1..Len(saves) : \E j \in 1..Len(saves[r].updates) :
                            /\ saves[r].status[j] = "resolved"
                            /\ saves[r].updates[j].fields.Id = saves[s].updates[i].fields.Id
                            /\ storage'[saves[s].updates[i].fields.Id]
                                  = saves[r].updates[j].fields.SalesPrice]_vars

\* C8 witness: a save reported Failure after one of its writes was applied
\* to storage, and the collection had changed since the save was invoked
C8_Witness ==
    \E s \in 1..Len(saves) :
        /\ saves[s].outcome = "Failure"
        /\ cartItems # saves[s].at
        /\ \E i \in 1..Len(saves[s].updates) :
              /\ saves[s].status[i] = "resolved"
              /\ storage[saves[s].updates[i].fields.Id]
                    = saves[s].updates[i].fields.SalesPrice

\* equal to within one unit of the second decimal
WithinRounding(a, b) ==
    \/ a = b
    \/ IsNum(a) /\ IsNum(b) /\ Abs(a.v - b.v) <= 1

\* C9: whenever no debounced edit is pending, every item's margin equals
\* calculateMargin(price, cost) to within 2-decimal rounding.
C9_PriceMarginSync ==
    timers = {} =>
        \A i \in 1..Len(cartItems) :
            WithinRounding(cartItems[i].margin,
                           calculateMargin(cartItems[i].SalesPrice,
                                           cartItems[i].Product2.Product_Cost__c))

\* C10: a margin edit whose value is 100 is rejected: it is never committed,
\* and no commit of a margin edit leaves a non-finite price.
C10_Margin100Rejected ==
    \A e \in 1..Len(log) :
        (log[e].field = "margin" /\ parseFloat(log[e].value) = Num(100 * Scale))
            => /\ log[e].status # "committed"
               /\ log[e].applied.SalesPrice.k \notin {"Infinity", "-Infinity", "NaN"}


\* ------------------------------------------------ the conversion functions
\* arguments calculateMargin is applied to.  Prices, in hundredths: fetched
\* or parsed from an edit, NaN (parseFloat of a non-numeric edit), and a
\* value that is not a number (a field missing from the fetched record)
CalcRevenues ==
    { Num(0), Num(1), Num(571), Num(800), Num(1000), Num(2000), Num(9999),
      Num(25000), Num(40000), Num(-500), NaN, Undef }

\* costs, in hundredths: fetched, or missing from the fetched record
CalcCosts ==
    { Num(0), Num(1), Num(30), Num(100), Num(500), Num(800), Num(7000), Undef }

InitCalc ==
    /\ InitComponent
    /\ calc \in { [pc |-> "input", revenue |-> r, cost |-> c,
                   margin |-> Undef, price |-> Undef] :
                  r \in CalcRevenues, c \in CalcCosts }

\* margin = calculateMargin(revenue, cost)
CalcMargin ==
    /\ calc.pc = "input"
    /\ calc' = [calc EXCEPT !.pc = "margin",
                            !.margin = calculateMargin(calc.revenue, calc.cost)]
    /\ UNCHANGED << cartItems, cartItemsRef, errorMsg >>
    /\ UNCHANGED editVars
    /\ UNCHANGED fetchVars
    /\ UNCHANGED saveVars

\* the price the margin callback derives when that margin is entered again
CalcPrice ==
    /\ calc.pc = "margin"
    /\ calc' = [calc EXCEPT !.pc = "price",
                            !.price = priceFromMargin(calc.margin, calc.cost)]
    /\ UNCHANGED << cartItems, cartItemsRef, errorMsg >>
    /\ UNCHANGED editVars
    /\ UNCHANGED fetchVars
    /\ UNCHANGED saveVars

NextCalc ==
    \/ CalcMargin
    \/ CalcPrice

SpecCalc == InitCalc /\ [][NextCalc]_vars

\* ================================================== claims (continued)

\* C11: after the fetch collaborator delivered an error the collection is
\* empty and the error is recorded; after it delivered data the error field
\* is cleared (until a save failure sets it).
C11_FetchError ==
    Len(wiredCartResult) > 0 =>
        IF wiredCartResult[1].error
        THEN cartItems = <<>>
        ELSE errorMsg \in {"undefined"} \cup { ErrorMessage(e) : e \in WriteErrors }

\* C12: calculateMargin returns 0 when the price is 0 or not a valid number
\* (NaN included) or the cost is not a valid number (NaN included), and
\* otherwise ((price - cost) / price) * 100 rounded to 2 decimals.
C12_MarginZeroCase ==
    calc.pc \in {"margin", "price"} =>
        IF ~IsNum(calc.revenue) \/ ~IsNum(calc.cost) \/ calc.revenue.v = 0
        THEN calc.margin = Num(0)
        ELSE /\ IsNum(calc.margin)
             /\ 2 * Abs(calc.margin.v * calc.revenue.v
                          - (calc.revenue.v - calc.cost.v) * 100 * Scale)
                   <= Abs(calc.revenue.v)

\* the case of the round trip: a price p # 0 and a cost c, both valid
\* numbers, whose margin is not 100
RoundTripCase ==
    /\ calc.pc = "price"
    /\ IsNum(calc.revenue) /\ calc.revenue.v # 0
    /\ IsNum(calc.cost)
    /\ calc.margin # Num(100 * Scale)

\* C13 as stated: priceFromMargin(margin(p, c), c) equals p to within one
\* unit of the second decimal.
C13_RoundTrip == RoundTripCase => WithinRounding(calc.price, calc.revenue)

\* C13 amended: the same, for prices and costs with p * p <= 100 * c (in
\* currency units; in hundredths p * p <= 10000 * c).
C13_RoundTripBounded ==
    (RoundTripCase /\ calc.revenue.v * calc.revenue.v <= 100 * Scale * calc.cost.v)
        => WithinRounding(calc.price, calc.revenue)

\* C13 witness: a round trip within the bound at a margin that had to be
\* rounded
C13_Witness ==
    /\ RoundTripCase
    /\ calc.revenue.v * calc.revenue.v <= 100 * Scale * calc.cost.v
    /\ calc.margin.v * calc.revenue.v # (calc.revenue.v - calc.cost.v) * 100 * Scale
    /\ calc.price = calc.revenue

\* C14: when a save has reported its outcome none of its write requests is
\* still in flight.
C14_OutcomeAfterAllSettled ==
    \A s \in 1..Len(saves) :
        saves[s].outcome # "pending" =>
            \A i \in 1..Len(saves[s].updates) : saves[s].status[i] # "inflight"


\* the step in which the callback of timer h runs (a cleared timer leaves
\* the queue in the step that schedules the next edit)
TimerFires(h) ==
    /\ h \in timers
    /\ h \notin timers'
    /\ Len(log') = Len(log)

\* the position of the item with this id
IndexOf(items, id) == CHOOSE i \in 1..Len(items) : items[i].Id = id

\* everything of an item but its price and margin
Shape(items) ==
    [i \in 1..Len(items) |->
        [Id |-> items[i].Id, Product2 |-> items[i].Product2,
         readonly |-> items[i].readonly]]

OthersUnchanged(i) ==
    /\ Len(cartItems') = Len(cartItems)
    /\ \A j \in 1..Len(cartItems) : j # i => cartItems'[j] = cartItems[j]

\* C15: a timer that fires for an id that is not in the collection changes
\* nothing: the collection (and the array it refers to), errorMsg and the
\* notifications are as before.
C15_NotFoundNoOp ==
    [][\A h \in timers :
          (TimerFires(h) /\ log[h].id \notin ItemIds(cartItems)) =>
              /\ cartItems' = cartItems
              /\ cartItemsRef' = cartItemsRef
              /\ errorMsg' = errorMsg
              /\ toasts' = toasts]_vars

\* C15 witness: a commit found its item gone from a collection that still
\* holds another item
C15_Witness ==
    \E e \in 1..Len(log) :
        /\ log[e].status = "notfound"
        /\ log[e].id \notin ItemIds(cartItems)
        /\ Len(cartItems) > 0

\* C16: when the timer of a price edit fires for an item of the collection,
\* the item's price is the parsed value and its margin calculateMargin of
\* that value and the cost; its id, cost and lock flag and every other item
\* are unchanged, and cartItems refers to a new array.
C16_PriceCommitEffect ==
    [][\A h \in timers :
          (TimerFires(h) /\ log[h].field = "price"
              /\ log[h].id \in ItemIds(cartItems)) =>
              LET i == IndexOf(cartItems, log[h].id)
                  v == parseFloat(log[h].value)
              IN  /\ OthersUnchanged(i)
                  /\ cartItems'[i].SalesPrice = v
                  /\ cartItems'[i].margin
                        = calculateMargin(v, cartItems[i].Product2.Product_Cost__c)
                  /\ Shape(cartItems') = Shape(cartItems)
                  /\ cartItemsRef' # cartItemsRef]_vars

\* C16 witness: a numeric price edit has committed and the item holds it
C16_Witness ==
    \E e \in 1..Len(log) :
        /\ log[e].field = "price"
        /\ log[e].status = "committed"
        /\ IsNum(log[e].applied.SalesPrice)
        /\ \E i \in 1..Len(cartItems) :
              /\ cartItems[i].Id = log[e].id
              /\ cartItems[i].SalesPrice = parseFloat(log[e].value)
              /\ cartItems[i].margin = log[e].applied.margin
              /\ cartItemsRef >= 2

\* the price is cost / (1 - m / 100) rounded to the second decimal
IsRoundedQuotient(price, m, cost) ==
    /\ IsNum(price)
    /\ 2 * Abs(price.v * (100 * Scale - m.v) - cost.v * 100 * Scale)
          <= Abs(100 * Scale - m.v)

\* C17: when the timer of a margin edit fires for an item of the
\* collection, the item's margin is the parsed value as entered and its
\* price is cost / (1 - parsed value / 100) rounded to 2 decimals; its cost
\* and every other item are unchanged.
C17_MarginCommitEffect ==
    [][\A h \in timers :
          (TimerFires(h) /\ log[h].field = "margin"
              /\ log[h].id \in ItemIds(cartItems)) =>
              LET i    == IndexOf(cartItems, log[h].id)
                  v    == parseFloat(log[h].value)
                  cost == cartItems[i].Product2.Product_Cost__c
              IN  /\ OthersUnchanged(i)
                  /\ cartItems'[i].margin = v
                  /\ cartItems'[i].SalesPrice = priceFromMargin(v, cost)
                  /\ (IsNum(v) /\ IsNum(cost) /\ v.v # 100 * Scale)
                        => IsRoundedQuotient(cartItems'[i].SalesPrice, v, cost)
                  /\ Shape(cartItems') = Shape(cartItems)]_vars

\* C17 witness: a margin edit of 12.5 has committed: the item's margin is
\* 12.5 although calculateMargin of its new price and cost is not
C17_Witness ==
    \E e \in 1..Len(log) :
        /\ log[e].field = "margin"
        /\ log[e].status = "committed"
        /\ \E i \in 1..Len(cartItems) :
              /\ cartItems[i].Id = log[e].id
              /\ cartItems[i].margin = Num(1250)
              /\ IsNum(cartItems[i].SalesPrice)
              /\ cartItems[i].margin # MapItem(cartItems[i]).margin

\* the step in which the wire adapter delivers data
DeliversData ==
    /\ fetches' = fetches + 1
    /\ Len(wiredCartResult') > 0
    /\ Len(wiredCartResult'[1].data) > 0

\* C18: a load replaces the collection by one item per raw item, in the
\* same order, with the raw item's id, price and cost, the margin
\* calculateMargin(price, cost) and the lock flag of the raw item; nothing
\* of the collection before the load remains.
C18_Seed ==
    [][DeliversData =>
          LET data == wiredCartResult'[1].data[1]
          IN  /\ Len(cartItems') = Len(data)
              /\ cartItemsRef' # cartItemsRef
              /\ \A i \in 1..Len(data) :
                    /\ cartItems'[i].Id = data[i].Id
                    /\ cartItems'[i].SalesPrice = data[i].SalesPrice
                    /\ cartItems'[i].Product2 = data[i].Product2
                    /\ cartItems'[i].margin
                          = calculateMargin(data[i].SalesPrice,
                                            data[i].Product2.Product_Cost__c)
                    /\ cartItems'[i].readonly
                          = data[i].Product2.Agency_Pricing__c]_vars

\* C18 witness: an edit was committed and a later load discarded it; the
\* loaded collection has a locked item
C18_Witness ==
    /\ fetches = 2
    /\ Len(wiredCartResult[1].data) > 0
    /\ \E i \in 1..Len(cartItems) : cartItems[i].readonly
    /\ \A i \in 1..Len(cartItems) :
          cartItems[i].SalesPrice = wiredCartResult[1].data[1][i].SalesPrice
    /\ \E e \in 1..Len(log) :
          /\ log[e].status = "committed"
          /\ \E i \in 1..Len(cartItems) :
                /\ cartItems[i].Id = log[e].id
                /\ cartItems[i].SalesPrice # log[e].applied.SalesPrice

\* C19: saveChanges builds each write from the item's price in the
\* collection at the call and touches neither the collection nor the timers:
\* a pending edit stays pending and its value is in none of the writes.
C19_SaveReadsSnapshot ==
    [][Len(saves') = Len(saves) + 1 =>
          LET save == saves'[Len(saves')]
          IN  /\ Len(save.updates) = Len(cartItems)
              /\ \A i \in 1..Len(cartItems) :
                    save.updates[i].fields.SalesPrice = cartItems[i].SalesPrice
              /\ cartItems' = cartItems
              /\ timers' = timers
              /\ log' = log
              /\ updatePriceTimeout' = updatePriceTimeout
              /\ updateMarginTimeout' = updateMarginTimeout]_vars

\* C19 witness: an edit was pending when save was called and committed
\* afterwards; the write for its item resolved, and the stored price is not
\* the local one
C19_Witness ==
    \E s \in 1..Len(saves) : \E e \in saves[s].pending :
        /\ log[e].status = "committed"
        /\ \E i \in 1..Len(saves[s].updates) :
              /\ saves[s].updates[i].fields.Id = log[e].id
              /\ saves[s].status[i] = "resolved"
        /\ \E i \in 1..Len(cartItems) :
              /\ cartItems[i].Id = log[e].id
              /\ cartItems[i].SalesPrice = log[e].applied.SalesPrice
              /\ cartItems[i].SalesPrice # storage[log[e].id]

\* ids are unique within the collection
UniqueIds ==
    \A i \in 1..Len(cartItems) : \A j \in 1..Len(cartItems) :
        cartItems[i].Id = cartItems[j].Id => i = j

\* C20: only a fetch that delivers data changes the sequence of ids, a cost
\* or a lock flag; ids are unique.
C20_ShapeStable ==
    /\ []UniqueIds
    /\ [][DeliversData \/ Shape(cartItems') = Shape(cartItems)]_vars

\* C20 witness: an edit has committed and a save has succeeded on a
\* collection of two items
C20_Witness ==
    /\ Len(cartItems) = 2
    /\ \E e \in 1..Len(log) : log[e].status = "committed"
    /\ \E s \in 1..Len(saves) : saves[s].outcome = "Success"

====
